---- MODULE Spec2Model ----
(***************************************************************************)
(* spanda: a Spark-like wrapper around a pandas DataFrame.                 *)
(*                                                                         *)
(* The model follows src/spanda/core/__init__.py (DataFrameWrapper and     *)
(* GroupedDataFrameWrapper).  A table is a pandas DataFrame: an index of   *)
(* row labels and a sequence of named columns.  Row *positions* are        *)
(* 0..n-1; row *labels* are the values of the index, which filter and sort *)
(* carry along unchanged.                                                  *)
(*                                                                         *)
(* pandas behaviour the code relies on, modelled as pandas defines it:     *)
(*   - groupby(list).indices maps each group key to the ascending row      *)
(*     POSITIONS of the group; keys come in ascending key order (sort=True *)
(*     is the default); rows with a null in a key column belong to no      *)
(*     group (dropna); for a list of ONE column the keys are scalars, not  *)
(*     1-tuples (this is why cube asserts isinstance(name, tuple));        *)
(*   - iloc takes positions and raises IndexError outside 0..n-1;          *)
(*   - assign(name=series) replaces a column of that name in place or      *)
(*     appends a new one; df[list_of_names] returns the named columns in   *)
(*     the order of the list, a name listed twice giving two columns.      *)
(***************************************************************************)
EXTENDS Integers, Sequences, FiniteSets, TLC

VARIABLES df, grouped, call, res

vars == <<df, grouped, call, res>>

\* ---------------------------------------------------------------- bounds
\* The most rows of a table a chain starts from.
MaxRows == 2
\* The cell values are None and 1..MaxKey.
MaxKey == 2
\* The most arguments of one agg or select call.
MaxArgs == 2

\* Python's None: the null of a data cell and the value rollup and cube
\* write into key tuples.
None == 0

Vals == 0..MaxKey

\* ---------------------------------------------------------------- helpers
Range(s) == {s[i] : i \in 1..Len(s)}

RECURSIVE SeqSum(_)
SeqSum(s) == IF s = <<>> THEN 0 ELSE Head(s) + SeqSum(Tail(s))

\* The ascending sequence of a finite set of integers.
RECURSIVE SortedSeq(_)
SortedSeq(S) ==
    IF S = {} THEN <<>>
    ELSE LET m == CHOOSE x \in S : \A y \in S : x <= y
         IN <<m>> \o SortedSeq(S \ {m})

\* Lexicographic order on integer tuples of one length.
RECURSIVE LexLess(_, _)
LexLess(x, y) ==
    IF x = <<>> THEN FALSE
    ELSE IF Head(x) # Head(y) THEN Head(x) < Head(y)
    ELSE LexLess(Tail(x), Tail(y))

RECURSIVE SortedTuples(_)
SortedTuples(S) ==
    IF S = {} THEN <<>>
    ELSE LET m == CHOOSE x \in S : \A y \in S : x = y \/ LexLess(x, y)
         IN <<m>> \o SortedTuples(S \ {m})

\* ----------------------------------------------------------------- tables
ColNames == {"a", "b"}

NRows(t) == Len(t.index)

HasCol(t, name) == \E i \in 1..Len(t.cols) : t.cols[i].name = name

\* df[name] for a table whose column names are unique.
ColVals(t, name) ==
    t.cols[CHOOSE i \in 1..Len(t.cols) : t.cols[i].name = name].vals

\* pd.DataFrame({"a": av, "b": bv}): the default index 0..n-1.  The tables
\* a chain starts from have at least one row; filter yields the empty ones.
NewTable(av, bv) ==
    [index |-> [i \in 1..Len(av) |-> i - 1],
     cols  |-> <<[name |-> "a", vals |-> av], [name |-> "b", vals |-> bv]>>]

FreshTables ==
    UNION {{NewTable(av, bv) : av \in [1..n -> Vals], bv \in [1..n -> Vals]}
           : n \in 1..MaxRows}

\* The rows at the given 1-based places, in that order, labels kept.
TakeRows(t, places) ==
    [index |-> [i \in 1..Len(places) |-> t.index[places[i]]],
     cols  |-> [c \in 1..Len(t.cols) |->
                  [name |-> t.cols[c].name,
                   vals |-> [i \in 1..Len(places) |-> t.cols[c].vals[places[i]]]]]]

NoTable == [index |-> <<>>, cols |-> <<>>]

NoGroups == [valid |-> FALSE, keys |-> <<>>, groups |-> <<>>]

\* The last call of the chain: its name and arguments; via is the grouping
\* call that built the grouped table a grouped agg ran on.
NoCall == [op |-> "new", via |-> "", keys |-> <<>>, aggs |-> <<>>, cols |-> <<>>]

NoRes == [status |-> "none", evals |-> 0, table |-> NoTable]

\* --------------------------------------------------------------- grouping
KeyLists == {<<"a">>, <<"b">>, <<"a", "b">>, <<"b", "a">>}

\* The key values of the row at 0-based position p.
RowKey(t, K, p) == [i \in 1..Len(K) |-> ColVals(t, K[i])[p + 1]]

\* A group key as pandas hands it out: a tuple for several key columns, a
\* scalar (kept in vals[1]) for one.
GroupKey(K, kv) == [tuple |-> Len(K) > 1, vals |-> kv]

\* self._df.groupby(list(cols)).indices, as the ordered mapping it is:
\* a sequence of [key, rows] in the mapping's iteration order.
GroupIndices(t, K) ==
    LET live == {p \in 0..(NRows(t) - 1) :
                   \A i \in 1..Len(K) : RowKey(t, K, p)[i] # None}
        keys == SortedTuples({RowKey(t, K, p) : p \in live})
    IN [g \in 1..Len(keys) |->
          [key  |-> GroupKey(K, keys[g]),
           rows |-> SortedSeq({p \in live : RowKey(t, K, p) = keys[g]})]]

groupBy(t, K) == [valid |-> TRUE, keys |-> K, groups |-> GroupIndices(t, K)]

\* Python's new_groups[key] += list(rows) on a defaultdict(list): a new key
\* is inserted last, an existing key has the rows appended to its list.
DictAdd(d, key, rows) ==
    IF \E i \in 1..Len(d) : d[i].key = key
    THEN [i \in 1..Len(d) |->
            IF d[i].key = key THEN [d[i] EXCEPT !.rows = @ \o rows] ELSE d[i]]
    ELSE Append(d, [key |-> key, rows |-> rows])

RECURSIVE MergeSteps(_, _)
MergeSteps(d, steps) ==
    IF steps = <<>> THEN d
    ELSE MergeSteps(DictAdd(d, Head(steps).key, Head(steps).rows), Tail(steps))

\* name[:-level] + (None,) * level
LevelName(name, level) ==
    [i \in 1..Len(name) |-> IF i <= Len(name) - level THEN name[i] ELSE None]

\* tuple([name[i] if (comb >> i) % 2 == 0 else None for i in range(len(cols))])
CubeName(name, comb) ==
    [i \in 1..Len(name) |->
        IF (comb \div (2 ^ (i - 1))) % 2 = 0 THEN name[i] ELSE None]

\* The outcome of rollup: the grouped table, or the exception it raises.
\* With one key column the names are scalars, and name[:-level] raises at
\* level 1 as soon as there is a group (TypeError for a Python number; the
\* status stands for whatever subscripting the scalar raises).
rollup(t, K) ==
    LET orig  == GroupIndices(t, K)
        n     == Len(orig)
        steps == [j \in 1..((Len(K) + 1) * n) |->
                    LET level == (j - 1) \div n
                        g     == ((j - 1) % n) + 1
                    IN [key  |-> GroupKey(K, LevelName(orig[g].key.vals, level)),
                        rows |-> orig[g].rows]]
    IN IF n > 0 /\ ~orig[1].key.tuple
       THEN [status |-> "TypeError", grouped |-> NoGroups]
       ELSE [status |-> "ok",
             grouped |-> [valid |-> TRUE, keys |-> K,
                          groups |-> MergeSteps(<<>>, steps)]]

\* The outcome of cube; assert isinstance(name, tuple) fails on the first
\* group when there is one key column.
cube(t, K) ==
    LET orig  == GroupIndices(t, K)
        n     == Len(orig)
        steps == [j \in 1..((2 ^ Len(K)) * n) |->
                    LET comb == (j - 1) \div n
                        g    == ((j - 1) % n) + 1
                    IN [key  |-> GroupKey(K, CubeName(orig[g].key.vals, comb)),
                        rows |-> orig[g].rows]]
    IN IF n > 0 /\ ~orig[1].key.tuple
       THEN [status |-> "AssertionError", grouped |-> NoGroups]
       ELSE [status |-> "ok",
             grouped |-> [valid |-> TRUE, keys |-> K,
                          groups |-> MergeSteps(<<>>, steps)]]

\* ------------------------------------------------------------ aggregation
\* The aggregate expressions of the model: sum, first, last and collect_list
\* of column b under their default names, and sum(b) under the alias "a".
AggCols ==
    {[fn |-> "SUM", src |-> "b", name |-> "SUM(b)"],
     [fn |-> "FIRST", src |-> "b", name |-> "FIRST(b)"],
     [fn |-> "LAST", src |-> "b", name |-> "LAST(b)"],
     [fn |-> "COLLECT_LIST", src |-> "b", name |-> "COLLECT_LIST(b)"],
     [fn |-> "SUM", src |-> "b", name |-> "a"]}

AggLists == UNION {[1..n -> AggCols] : n \in 1..MaxArgs}

\* The values of a series that are not null.
RECURSIVE NotNull(_)
NotNull(s) ==
    IF s = <<>> THEN <<>>
    ELSE IF Head(s) = None THEN NotNull(Tail(s))
    ELSE <<Head(s)>> \o NotNull(Tail(s))

\* The op of an aggregate on the series of one group.  Every result is kept
\* as a list: a scalar x as <<x>>, collect_list as the list it builds.
\*   sum:          lambda x: x.sum()      (nulls skipped, 0 for none left)
\*   first, last:  lambda x: x.iloc[0], x.iloc[-1]  (IndexError on no rows)
\*   collect_list: list
Reduce(fn, s) ==
    IF fn = "SUM" THEN [status |-> "ok", val |-> <<SeqSum(NotNull(s))>>]
    ELSE IF fn = "COLLECT_LIST" THEN [status |-> "ok", val |-> s]
    ELSE IF s = <<>> THEN [status |-> "IndexError", val |-> <<>>]
    ELSE IF fn = "FIRST" THEN [status |-> "ok", val |-> <<s[1]>>]
    ELSE [status |-> "ok", val |-> <<s[Len(s)]>>]

\* AggColumn._apply(col, self._df.iloc[grp_idxs]): iloc takes the rows at the
\* given positions, in the given order, and raises IndexError for a position
\* outside the table; the aggregate reduces the source column of those rows.
ApplyAgg(t, agg, rows) ==
    IF \E i \in 1..Len(rows) : rows[i] < 0 \/ rows[i] >= NRows(t)
    THEN [status |-> "IndexError", val |-> <<>>]
    ELSE Reduce(agg.fn, [i \in 1..Len(rows) |-> ColVals(t, agg.src)[rows[i] + 1]])

\* The aggregate columns of GroupedDataFrameWrapper.agg, one after the other:
\* the name of a column is checked when its turn comes, after the columns
\* before it have been reduced over every group.  acc carries the columns
\* built so far, the names in df_dict and the number of reductions done.
RECURSIVE AggLoop(_, _, _, _)
AggLoop(t, groups, aggs, acc) ==
    IF aggs = <<>> THEN acc
    ELSE LET agg  == Head(aggs)
             outs == [g \in 1..Len(groups) |-> ApplyAgg(t, agg, groups[g].rows)]
             bad  == {g \in 1..Len(groups) : outs[g].status # "ok"}
         IN IF agg.name \in acc.names
            THEN [acc EXCEPT !.status = "DuplicateName"]
            ELSE IF bad # {}
            THEN LET f == CHOOSE g \in bad : \A h \in bad : g <= h
                 IN [acc EXCEPT !.status = outs[f].status, !.evals = @ + f - 1]
            ELSE AggLoop(t, groups, Tail(aggs),
                         [acc EXCEPT
                            !.names = @ \cup {agg.name},
                            !.evals = @ + Len(groups),
                            !.cols = Append(@, [name |-> agg.name,
                                                vals |-> [g \in 1..Len(groups) |->
                                                            outs[g].val]])])

\* GroupedDataFrameWrapper.agg on the table t grouped as g.  The key columns
\* come first: column i holds x[i] of every group key x, which raises
\* TypeError when the keys are scalars.  Then the aggregate columns.  The
\* result is pd.DataFrame(df_dict): one row per group, the default index.
GroupedAgg(t, g, aggs) ==
    LET G       == Len(g.groups)
        dupKey  == \E i, j \in 1..Len(g.keys) : i < j /\ g.keys[i] = g.keys[j]
        scalar  == Len(g.keys) > 0 /\ G > 0 /\ ~g.groups[1].key.tuple
        keyCols == [i \in 1..Len(g.keys) |->
                      [name |-> g.keys[i],
                       vals |-> [x \in 1..G |-> g.groups[x].key.vals[i]]]]
        out     == AggLoop(t, g.groups, aggs,
                           [status |-> "ok", evals |-> 0,
                            names |-> Range(g.keys), cols |-> keyCols])
    IN IF dupKey THEN [status |-> "DuplicateName", evals |-> 0, table |-> NoTable]
       ELSE IF scalar THEN [status |-> "TypeError", evals |-> 0, table |-> NoTable]
       ELSE IF out.status # "ok"
       THEN [status |-> out.status, evals |-> out.evals, table |-> NoTable]
       ELSE [status |-> "ok", evals |-> out.evals,
             table |-> [index |-> [x \in 1..G |-> x - 1], cols |-> out.cols]]

\* The grouped table DataFrameWrapper.agg builds:
\* GroupedDataFrameWrapper(self._df, tuple(), {0: self._df.index}); the one
\* group holds the row LABELS of the table.
WholeGroup(t) ==
    [valid |-> TRUE, keys |-> <<>>,
     groups |-> <<[key |-> [tuple |-> FALSE, vals |-> <<0>>], rows |-> t.index]>>]

agg(t, aggs) == GroupedAgg(t, WholeGroup(t), aggs)

\* ----------------------------------------------------------------- select
\* The expressions of the model: col(src).alias(name), col(src) itself being
\* the one whose name is src.
SelectCols == {[name |-> n, src |-> c] : n \in ColNames \cup {"y"}, c \in ColNames}

SelectLists == UNION {[1..n -> SelectCols] : n \in 1..MaxArgs}

\* df.assign(**{name: vals})
Assign(t, name, vals) ==
    IF HasCol(t, name)
    THEN [t EXCEPT !.cols = [i \in 1..Len(t.cols) |->
                               IF t.cols[i].name = name
                               THEN [name |-> name, vals |-> vals]
                               ELSE t.cols[i]]]
    ELSE [t EXCEPT !.cols = Append(@, [name |-> name, vals |-> vals])]

\* The second loop of select on ordinary columns: each expression is
\* evaluated on the table the expressions before it have been assigned to.
RECURSIVE SelectLoop(_, _)
SelectLoop(t, cols) ==
    IF cols = <<>> THEN [status |-> "ok", table |-> t]
    ELSE IF ~HasCol(t, Head(cols).src)
    THEN [status |-> "UnknownColumn", table |-> NoTable]
    ELSE SelectLoop(Assign(t, Head(cols).name, ColVals(t, Head(cols).src)),
                    Tail(cols))

\* select(*cols): return df[col_names], the columns named by the selection,
\* in its order, read from the table the loop ends with.
select(t, cols) ==
    LET out == SelectLoop(t, cols)
    IN IF out.status # "ok" THEN [status |-> out.status, evals |-> 0, table |-> NoTable]
       ELSE [status |-> "ok", evals |-> 0,
             table |-> [index |-> t.index,
                        cols  |-> [i \in 1..Len(cols) |->
                                     [name |-> cols[i].name,
                                      vals |-> ColVals(out.table, cols[i].name)]]]]

\* ---------------------------------------------------------------- actions
\* A behaviour is one method chain on a freshly wrapped table, such as
\* DataFrameWrapper(t).filter(..).sort(..).rollup(..).agg(..).  OnTable: the
\* chain stands on a DataFrameWrapper with the columns of the input.
\* OnGrouped: it stands on the GroupedDataFrameWrapper a grouping call
\* returned.  A call that raised, and agg and select, end the chain.
OnTable == call.op \in {"new", "filter", "sort"}

OnGrouped == grouped.valid /\ call.op \in {"groupBy", "rollup", "cube"}

Init ==
    /\ df \in FreshTables
    /\ grouped = NoGroups
    /\ call = NoCall
    /\ res = NoRes

\* filter(col(c) == x): the rows whose mask is True; a null never compares
\* equal.  The result keeps the labels of the rows it keeps.
Filter ==
    \E c \in ColNames, x \in 1..MaxKey :
        LET keep == SortedSeq({i \in 1..NRows(df) : ColVals(df, c)[i] = x})
        IN /\ OnTable
           /\ df' = TakeRows(df, keep)
           /\ grouped' = NoGroups
           /\ call' = [NoCall EXCEPT !.op = "filter"]
           /\ res' = NoRes

\* x comes no later than y in sort_values: nulls last, whatever the direction.
SortsBefore(x, y, ascending) ==
    IF y = None THEN TRUE
    ELSE IF x = None THEN FALSE
    ELSE IF ascending THEN x <= y ELSE x >= y

\* sort(c, ascending=...): sort_values with the default, unstable quicksort;
\* the order of rows with equal values is any order.
Sort ==
    \E c \in ColNames, ascending \in BOOLEAN :
    \E p \in Permutations(1..NRows(df)) :
        /\ OnTable
        /\ \A i, j \in 1..NRows(df) :
              i < j => SortsBefore(ColVals(df, c)[p[i]], ColVals(df, c)[p[j]], ascending)
        /\ df' = TakeRows(df, p)
        /\ grouped' = NoGroups
        /\ call' = [NoCall EXCEPT !.op = "sort"]
        /\ res' = NoRes

GroupBy ==
    \E K \in KeyLists :
        /\ OnTable
        /\ grouped' = groupBy(df, K)
        /\ call' = [NoCall EXCEPT !.op = "groupBy", !.keys = K]
        /\ res' = [NoRes EXCEPT !.status = "ok"]
        /\ UNCHANGED df

Rollup ==
    \E K \in KeyLists :
        /\ OnTable
        /\ grouped' = rollup(df, K).grouped
        /\ call' = [NoCall EXCEPT !.op = "rollup", !.keys = K]
        /\ res' = [NoRes EXCEPT !.status = rollup(df, K).status]
        /\ UNCHANGED df

Cube ==
    \E K \in KeyLists :
        /\ OnTable
        /\ grouped' = cube(df, K).grouped
        /\ call' = [NoCall EXCEPT !.op = "cube", !.keys = K]
        /\ res' = [NoRes EXCEPT !.status = cube(df, K).status]
        /\ UNCHANGED df

\* grouped.agg(*aggs) on the grouped table of the last grouping call.
GroupedAggCall ==
    /\ OnGrouped
    /\ \E aggs \in AggLists :
          /\ res' = GroupedAgg(df, grouped, aggs)
          /\ call' = [call EXCEPT !.op = "grouped.agg", !.via = call.op, !.aggs = aggs]
    /\ UNCHANGED <<df, grouped>>

\* df.agg(*aggs)
AggCall ==
    \E aggs \in AggLists :
        /\ OnTable
        /\ res' = agg(df, aggs)
        /\ call' = [NoCall EXCEPT !.op = "agg", !.aggs = aggs]
        /\ grouped' = NoGroups
        /\ UNCHANGED df

\* df.select(*cols)
SelectCall ==
    \E cols \in SelectLists :
        /\ OnTable
        /\ res' = select(df, cols)
        /\ call' = [NoCall EXCEPT !.op = "select", !.cols = cols]
        /\ grouped' = NoGroups
        /\ UNCHANGED df

Next ==
    \/ Filter
    \/ Sort
    \/ GroupBy
    \/ Rollup
    \/ Cube
    \/ GroupedAggCall
    \/ AggCall
    \/ SelectCall

Spec == Init /\ [][Next]_vars

\* ----------------------------------------------------------------- claims
Positions(t) == 0..(NRows(t) - 1)

\* The key positions of a group key that hold the wildcard.
Pattern(key) == {i \in 1..Len(key.vals) : key.vals[i] = None}

Patterns(groups) == {Pattern(groups[g].key) : g \in 1..Len(groups)}

\* The wildcard pattern of rollup level L over k keys: the last L positions.
SuffixPattern(k, L) == (k - L + 1)..k

NoRowTwice(rows) == Cardinality(Range(rows)) = Len(rows)

\* A grouped table as the mapping it is: key tuple -> set of rows.
AsMapping(groups) ==
    {<<groups[g].key.vals, Range(groups[g].rows)>> : g \in 1..Len(groups)}

\* C1: the groups of groupBy(K) partition the rows of the table: the row sets
\* of two groups are disjoint and together they are all rows of the table.
C1_GroupByPartition ==
    call.op = "groupBy" =>
        LET gs == grouped.groups
        IN /\ \A i, j \in 1..Len(gs) :
                 i # j => Range(gs[i].rows) \cap Range(gs[j].rows) = {}
           /\ UNION {Range(gs[i].rows) : i \in 1..Len(gs)} = Positions(df)

\* C2: rollup over k keys returns groups of exactly the k+1 suffix wildcard
\* patterns; at each level L the group of a key tuple with its last L
\* positions wildcarded holds the rows of all original groups that collide.
C2_RollupGranularities ==
    call.op = "rollup" =>
        LET K    == call.keys
            k    == Len(K)
            orig == GroupIndices(df, K)
            gs   == grouped.groups
        IN /\ res.status = "ok"
           /\ Patterns(gs) = {SuffixPattern(k, L) : L \in 0..k}
           /\ \A L \in 0..k : \A o \in 1..Len(orig) :
                 \E g \in 1..Len(gs) :
                    /\ gs[g].key.vals = LevelName(orig[o].key.vals, L)
                    /\ Range(gs[g].rows) =
                         UNION {Range(orig[x].rows) :
                                  x \in {y \in 1..Len(orig) :
                                           LevelName(orig[y].key.vals, L)
                                             = LevelName(orig[o].key.vals, L)}}

\* C4: cube over k keys returns groups of exactly the 2^k wildcard patterns,
\* one per subset of the key positions, and every pattern of rollup over the
\* same keys is among them.
C4_CubeGranularities ==
    call.op = "cube" =>
        LET K == call.keys
        IN /\ res.status = "ok"
           /\ Patterns(grouped.groups) = SUBSET (1..Len(K))
           /\ Cardinality(Patterns(grouped.groups)) = 2 ^ Len(K)
           /\ {SuffixPattern(Len(K), L) : L \in 0..Len(K)}
                 \subseteq Patterns(grouped.groups)

\* C5: the groups of rollup(K) and of cube(K) whose key holds no wildcard are
\* the groups of groupBy(K): the same keys with the same row sets, and no row
\* twice in a group.
C5_FullLevelIsGroupBy ==
    call.op \in {"rollup", "cube"} =>
        LET gs   == grouped.groups
            full == SelectSeq(gs, LAMBDA g : Pattern(g.key) = {})
        IN /\ res.status = "ok"
           /\ AsMapping(full) = AsMapping(GroupIndices(df, call.keys))
           /\ \A g \in 1..Len(full) : NoRowTwice(full[g].rows)

\* C6: no key of a partially aggregated group of rollup or cube equals the
\* key values of a row of the table, and no group mixes two levels (a row
\* would then be in it twice).
C6_SentinelDistinct ==
    (call.op \in {"rollup", "cube"} /\ res.status = "ok") =>
        \A g \in 1..Len(grouped.groups) :
            LET grp == grouped.groups[g]
            IN /\ NoRowTwice(grp.rows)
               /\ Pattern(grp.key) # {} =>
                     \A p \in Positions(df) : RowKey(df, call.keys, p) # grp.key.vals

\* The value of aggregate j in row x of a result table with k key columns.
AggCell(table, k, j, x) == table.cols[k + j].vals[x]

\* C3: df.agg reduces over one group holding exactly all rows of the table,
\* and for every aggregate and every key list K its value is the value the
\* aggregate takes on the grand-total group of rollup(K).
C3_GrandTotalIsWholeAgg ==
    call.op = "agg" =>
        /\ Range(WholeGroup(df).groups[1].rows) = Positions(df)
        /\ res.status = "ok" =>
             \A K \in KeyLists : \A j \in 1..Len(call.aggs) :
                call.aggs[j].name \notin Range(K) =>
                   LET r     == rollup(df, K)
                       out   == GroupedAgg(df, r.grouped, <<call.aggs[j]>>)
                       total == {g \in 1..Len(r.grouped.groups) :
                                   Pattern(r.grouped.groups[g].key) = 1..Len(K)}
                   IN /\ r.status = "ok"
                      /\ out.status = "ok"
                      /\ total # {}
                      /\ \A g \in total :
                            AggCell(out.table, Len(K), 1, g)
                              = AggCell(res.table, 0, j, 1)

\* Two aggregates of one name, or an aggregate named like a key.
DupNames(keys, aggs) ==
    \/ \E i, j \in 1..Len(aggs) : i < j /\ aggs[i].name = aggs[j].name
    \/ \E i \in 1..Len(aggs) : aggs[i].name \in Range(keys)

\* The first position of the table whose row has the key values kv.
FirstSeen(t, K, kv) ==
    CHOOSE p \in Positions(t) :
        /\ RowKey(t, K, p) = kv
        /\ \A q \in Positions(t) : RowKey(t, K, q) = kv => p <= q

\* C7: agg on a grouped table returns one row per group, the key columns first
\* (value i of a row from position i of the group's key), then one column per
\* aggregate, the rows in the order of the group mapping; after groupBy that
\* order is the order in which the key values are first met in the table.
C7_AggOutput ==
    (call.op = "grouped.agg" /\ ~DupNames(call.keys, call.aggs)) =>
        LET gs == grouped.groups
            k  == Len(call.keys)
            T  == res.table
            outKey(x) == [i \in 1..k |-> T.cols[i].vals[x]]
        IN /\ res.status = "ok"
           /\ NRows(T) = Len(gs)
           /\ Len(T.cols) = k + Len(call.aggs)
           /\ \A i \in 1..k :
                 /\ T.cols[i].name = call.keys[i]
                 /\ \A x \in 1..Len(gs) : T.cols[i].vals[x] = gs[x].key.vals[i]
           /\ \A j \in 1..Len(call.aggs) :
                 /\ T.cols[k + j].name = call.aggs[j].name
                 /\ \A x \in 1..Len(gs) :
                       AggCell(T, k, j, x)
                         = ApplyAgg(df, call.aggs[j], SortedSeq(Range(gs[x].rows))).val
           /\ call.via = "groupBy" =>
                 \A x, y \in 1..Len(gs) :
                    x < y => FirstSeen(df, call.keys, outKey(x))
                               < FirstSeen(df, call.keys, outKey(y))

\* C8: a grouped agg with a duplicate output name returns no table, and when
\* it fails with DuplicateName no aggregate has been reduced on any group (a
\* call that another exception ends first does not count against the claim).
C8_DuplicateNameBeforeEvaluation ==
    (call.op = "grouped.agg" /\ DupNames(call.keys, call.aggs)) =>
        /\ res.status # "ok"
        /\ res.status = "DuplicateName" => res.evals = 0

\* C9: select with two expressions of one output name fails with
\* DuplicateName; it returns no table.
C9_SelectDuplicateName ==
    (call.op = "select"
       /\ \E i, j \in 1..Len(call.cols) : i < j /\ call.cols[i].name = call.cols[j].name)
    => res.status = "DuplicateName"

\* C10: in select every expression is evaluated on the original table
\* whatever the other expressions are, and the output columns are those of
\* the selection, in its order.
C10_SelectAgainstOriginal ==
    (call.op = "select"
       /\ \A i, j \in 1..Len(call.cols) : i < j => call.cols[i].name # call.cols[j].name)
    => /\ res.status = "ok"
       /\ Len(res.table.cols) = Len(call.cols)
       /\ \A i \in 1..Len(call.cols) :
             /\ res.table.cols[i].name = call.cols[i].name
             /\ res.table.cols[i].vals = ColVals(df, call.cols[i].src)

\* ================================================================ windows
\* src/spanda/sql/functions.py: lead and lag.  Their op receives the whole
\* evaluated column (a series read by row label with .loc), the ordered row
\* labels of the row's partition and the 0-based position of the row in it.
\* The window machinery itself (WindowTransformationColumn.over and the
\* window specification) follows the design document: a partition holds the
\* rows that share the partition key, in table order.

\* The largest offset given to lead and lag, in either direction.
MaxOff == 2

\* seq[i] in Python for a 0-based i: a negative i counts from the end, and
\* an i outside -len..len-1 raises IndexError.
PyIndex(seq, i) ==
    IF 0 <= i /\ i < Len(seq) THEN [status |-> "ok", val |-> seq[i + 1]]
    ELSE IF i < 0 /\ -i <= Len(seq) THEN [status |-> "ok", val |-> seq[Len(seq) + i + 1]]
    ELSE [status |-> "IndexError", val |-> None]

\* col.loc[label] for a series with the index of table t.
Loc(t, vals, label) == vals[CHOOSE i \in 1..NRows(t) : t.index[i] = label]

\* The op of lead(col, count), with a variant that tests the upper end off
\* by one:
\*   lambda col, grp, pos: col.loc[grp[pos+count]] if pos+count < len(grp) else None
leadOpOffByOne(t, vals, grp, pos, count) ==
    IF pos + count <= Len(grp)
    THEN LET e == PyIndex(grp, pos + count)
         IN IF e.status = "ok" THEN [status |-> "ok", val |-> Loc(t, vals, e.val)]
            ELSE e
    ELSE [status |-> "ok", val |-> None]

leadOp(t, vals, grp, pos, count) ==
    IF pos + count < Len(grp)
    THEN LET e == PyIndex(grp, pos + count)
         IN IF e.status = "ok" THEN [status |-> "ok", val |-> Loc(t, vals, e.val)]
            ELSE e
    ELSE [status |-> "ok", val |-> None]

\* The op of lag(col, count), with a variant that tests the lower end off by
\* one:
\*   lambda col, grp, pos: col.loc[grp[pos-count]] if pos-count >= 0 else None
lagOpOffByOne(t, vals, grp, pos, count) ==
    IF pos - count > 0
    THEN LET e == PyIndex(grp, pos - count)
         IN IF e.status = "ok" THEN [status |-> "ok", val |-> Loc(t, vals, e.val)]
            ELSE e
    ELSE [status |-> "ok", val |-> None]

lagOp(t, vals, grp, pos, count) ==
    IF pos - count >= 0
    THEN LET e == PyIndex(grp, pos - count)
         IN IF e.status = "ok" THEN [status |-> "ok", val |-> Loc(t, vals, e.val)]
            ELSE e
    ELSE [status |-> "ok", val |-> None]

WindowOp(fn, t, vals, grp, pos, count) ==
    IF fn = "lead" THEN leadOp(t, vals, grp, pos, count)
    ELSE lagOp(t, vals, grp, pos, count)

\* The places (1-based, ascending) of the rows of t in the partition of the
\* row at place i, for a window partitioned by column key.
PartitionPlaces(t, key, i) ==
    SortedSeq({j \in 1..NRows(t) : ColVals(t, key)[j] = ColVals(t, key)[i]})

\* group_to_ordered_rows of the row at place i: the labels of its partition.
PartitionOf(t, key, i) ==
    LET ps == PartitionPlaces(t, key, i)
    IN [x \in 1..Len(ps) |-> t.index[ps[x]]]

\* The 0-based position of the row at place i in its partition.
PosInPartition(t, key, i) ==
    Cardinality({j \in 1..(i - 1) : ColVals(t, key)[j] = ColVals(t, key)[i]})

\* fn(col, count).over(window partitioned by key), evaluated on t with the
\* series vals as the evaluated col: one value per row, or the first
\* exception.
over(fn, t, vals, key, count) ==
    LET outs == [i \in 1..NRows(t) |->
                   WindowOp(fn, t, vals, PartitionOf(t, key, i),
                            PosInPartition(t, key, i), count)]
        bad  == {i \in 1..NRows(t) : outs[i].status # "ok"}
    IN IF bad # {}
       THEN [status |-> outs[CHOOSE i \in bad : \A j \in bad : i <= j].status,
             vals |-> <<>>]
       ELSE [status |-> "ok", vals |-> [i \in 1..NRows(t) |-> outs[i].val]]

WindowResult(t, out) ==
    IF out.status # "ok" THEN [NoRes EXCEPT !.status = out.status]
    ELSE [status |-> "ok", evals |-> 0,
          table |-> [index |-> t.index,
                     cols |-> <<[name |-> "w", vals |-> out.vals]>>]]

WindowCallOf(op, n) ==
    [op |-> op, via |-> "", keys |-> <<"a">>, aggs |-> <<>>, cols |-> <<>>, n |-> n]

\* df.select(lead("b", n).over(w).alias("w")), w partitioned by a in table
\* order; n is any integer.
LeadCall ==
    \E n \in (-MaxOff)..MaxOff :
        /\ OnTable
        /\ res' = WindowResult(df, over("lead", df, ColVals(df, "b"), "a", n))
        /\ call' = WindowCallOf("lead", n)
        /\ grouped' = NoGroups
        /\ UNCHANGED df

\* df.select(lag("b", n).over(w).alias("w"))
LagCall ==
    \E n \in (-MaxOff)..MaxOff :
        /\ OnTable
        /\ res' = WindowResult(df, over("lag", df, ColVals(df, "b"), "a", n))
        /\ call' = WindowCallOf("lag", n)
        /\ grouped' = NoGroups
        /\ UNCHANGED df

\* lag(lead("b", n).over(w), n).over(w): the column lag reads is the
\* evaluated lead column.
leadThenLag(t, key, n) ==
    LET inner == over("lead", t, ColVals(t, "b"), key, n)
    IN IF inner.status # "ok" THEN inner
       ELSE over("lag", t, inner.vals, key, n)

\* df.select(lag(lead("b", n).over(w), n).over(w).alias("w")) for n >= 0
LeadLagCall ==
    \E n \in 0..MaxOff :
        /\ OnTable
        /\ res' = WindowResult(df, leadThenLag(df, "a", n))
        /\ call' = WindowCallOf("leadlag", n)
        /\ grouped' = NoGroups
        /\ UNCHANGED df

NextWindow ==
    \/ Filter
    \/ Sort
    \/ LeadCall
    \/ LagCall
    \/ LeadLagCall

SpecWindow == Init /\ [][NextWindow]_vars

\* The value of column b at 0-based position q of the partition of the row
\* at place i, null when q is outside the partition.
AtPartitionPos(t, key, i, q) ==
    LET ps == PartitionPlaces(t, key, i)
    IN IF 0 <= q /\ q < Len(ps) THEN ColVals(t, "b")[ps[q + 1]] ELSE None

\* C11: for every integer n, lead(col, n) is the value at position pos+n of
\* the row's partition when that position is inside it and null otherwise,
\* and lag(col, n) the value at pos-n when pos-n >= 0 and null otherwise;
\* never a value from a wrapped-around position.
C11_LeadLagByPosition ==
    call.op \in {"lead", "lag"} =>
        /\ res.status = "ok"
        /\ \A i \in 1..NRows(df) :
              LET pos == PosInPartition(df, "a", i)
                  q   == IF call.op = "lead" THEN pos + call.n ELSE pos - call.n
              IN res.table.cols[1].vals[i] = AtPartitionPos(df, "a", i, q)

\* C12 as stated: lead by n >= 0 and then lag by n recovers the column at
\* every position of a partition except its last n, which are null.
C12_LeadLagKeepsAllButLast ==
    call.op = "leadlag" =>
        /\ res.status = "ok"
        /\ \A i \in 1..NRows(df) :
              LET pos == PosInPartition(df, "a", i)
                  m   == Len(PartitionPlaces(df, "a", i))
              IN res.table.cols[1].vals[i]
                   = IF pos < m - call.n THEN ColVals(df, "b")[i] ELSE None

\* C12 amended: lead by n >= 0 and then lag by n recovers the column at
\* every position of a partition except its first n, which are null.
C12_LeadLagKeepsAllButFirst ==
    call.op = "leadlag" =>
        /\ res.status = "ok"
        /\ \A i \in 1..NRows(df) :
              LET pos == PosInPartition(df, "a", i)
              IN res.table.cols[1].vals[i]
                   = IF pos >= call.n THEN ColVals(df, "b")[i] ELSE None

\* A partition of two rows with values in both, led and lagged by one: the
\* first row comes out null and the second with its own value.
C12_Witness ==
    /\ call.op = "leadlag"
    /\ call.n = 1
    /\ res.status = "ok"
    /\ \E i, j \in 1..NRows(df) :
          /\ i < j
          /\ ColVals(df, "a")[i] = ColVals(df, "a")[j]
          /\ ColVals(df, "b")[i] # None
          /\ ColVals(df, "b")[j] # None
          /\ res.table.cols[1].vals[i] = None
          /\ res.table.cols[1].vals[j] = ColVals(df, "b")[j]

\* ------------------------------------------------------------- element_at
\* The most items of an array cell.
MaxLen == 2

\* A cell of an array or dictionary column.  A list has its items in order;
\* a dict has its keys in insertion order and the value of keys[k] in
\* items[k].  Array items are never null, so that the null None cannot stand
\* in for the integer 0.
ListCells ==
    UNION {{[kind |-> "list", keys |-> <<>>, items |-> s] : s \in [1..n -> 1..MaxKey]}
           : n \in 0..MaxLen}

DictCells ==
    UNION {{[kind |-> "dict", keys |-> SortedSeq(K), items |-> s]
              : s \in [1..Cardinality(K) -> Vals]}
           : K \in SUBSET (1..MaxKey)}

Cells == ListCells \cup DictCells

\* pd.DataFrame({"a": cells})
CellTable(cells) ==
    [index |-> [i \in 1..Len(cells) |-> i - 1],
     cols  |-> << [name |-> "a", vals |-> cells] >>]

CellTables == UNION {{CellTable(s) : s \in [1..n -> Cells]} : n \in 1..MaxRows}

\* Python's `ext in arr`: a list tests its items, a dict its keys.
Contains(arr, ext) ==
    IF arr.kind = "list" THEN \E k \in 1..Len(arr.items) : arr.items[k] = ext
    ELSE \E k \in 1..Len(arr.keys) : arr.keys[k] = ext

\* Python's arr[ext]: a list is indexed by position, a dict by key (KeyError
\* for a key it lacks).
Subscript(arr, ext) ==
    IF arr.kind = "list" THEN PyIndex(arr.items, ext)
    ELSE IF \E k \in 1..Len(arr.keys) : arr.keys[k] = ext
    THEN [status |-> "ok",
          val |-> arr.items[CHOOSE k \in 1..Len(arr.keys) : arr.keys[k] = ext]]
    ELSE [status |-> "KeyError", val |-> None]

\* _element_at(arr, ext):
\*   if isinstance(arr, list):
\*       ext -= 1
\*       assert ext >= 0
\*   return arr[ext] if ext in arr else None
element_at(arr, extraction) ==
    LET ext == IF arr.kind = "list" THEN extraction - 1 ELSE extraction
    IN IF arr.kind = "list" /\ ~(ext >= 0)
       THEN [status |-> "AssertionError", val |-> None]
       ELSE IF Contains(arr, ext) THEN Subscript(arr, ext)
       ELSE [status |-> "ok", val |-> None]

\* The binary transform column applied to the evaluated column: the
\* function on every cell in row order, the first exception ending it.
ElementwiseElementAt(cells, extraction) ==
    LET outs == [i \in 1..Len(cells) |-> element_at(cells[i], extraction)]
        bad  == {i \in 1..Len(cells) : outs[i].status # "ok"}
    IN IF bad # {}
       THEN [status |-> outs[CHOOSE i \in bad : \A j \in bad : i <= j].status,
             vals |-> <<>>]
       ELSE [status |-> "ok", vals |-> [i \in 1..Len(cells) |-> outs[i].val]]

InitElem ==
    /\ df \in CellTables
    /\ grouped = NoGroups
    /\ call = NoCall
    /\ res = NoRes

\* df.select(element_at("a", i).alias("w"))
ElementAtCall ==
    \E i \in (-1)..(MaxLen + 1) :
        /\ call.op = "new"
        /\ res' = WindowResult(df, ElementwiseElementAt(ColVals(df, "a"), i))
        /\ call' = WindowCallOf("element_at", i)
        /\ UNCHANGED <<df, grouped>>

NextElem == ElementAtCall

SpecElem == InitElem /\ [][NextElem]_vars

\* C14: on array cells element_at(col, i) with 1 <= i <= len(a) is a[i-1];
\* on a dictionary cell holding the key i it is the value under i; an array
\* with a non-positive i is rejected.
C14_ElementAtOneBased ==
    call.op = "element_at" =>
        LET cells == ColVals(df, "a")
            rows  == 1..Len(cells)
            i     == call.n
        IN /\ (\E r \in rows : cells[r].kind = "list" /\ i <= 0)
                => res.status # "ok"
           /\ (\A r \in rows : cells[r].kind = "list"
                                  => 1 <= i /\ i <= Len(cells[r].items))
                => /\ res.status = "ok"
                   /\ \A r \in rows :
                         /\ cells[r].kind = "list"
                              => res.table.cols[1].vals[r] = cells[r].items[i]
                         /\ (cells[r].kind = "dict" /\ Contains(cells[r], i))
                              => res.table.cols[1].vals[r]
                                   = Subscript(cells[r], i).val

\* -------------------------------------------------------- table operations
Names(t) == {t.cols[c].name : c \in 1..Len(t.cols)}

\* The values of the row at place i, in column order.
Row(t, i) == [c \in 1..Len(t.cols) |-> t.cols[c].vals[i]]

Rows(t) == {Row(t, i) : i \in 1..NRows(t)}

\* The default index 0..n-1 of a DataFrame that merge builds.
ResetIndex(t) == [t EXCEPT !.index = [i \in 1..NRows(t) |-> i - 1]]

\* df.drop_duplicates(): the first of equal rows is kept, with its label;
\* nulls count as equal.
DropDuplicates(t) ==
    TakeRows(t, SortedSeq({i \in 1..NRows(t) :
                             \A j \in 1..(i - 1) : Row(t, j) # Row(t, i)}))

\* pd.concat([t, o], axis='index') of two tables with the same column names:
\* the rows of t, then those of o, labels kept, columns in the order of t.
Concat(t, o) ==
    [index |-> t.index \o o.index,
     cols  |-> [c \in 1..Len(t.cols) |->
                  [name |-> t.cols[c].name,
                   vals |-> t.cols[c].vals \o ColVals(o, t.cols[c].name)]]]

\* The pairs <<i, j>> of a row of t and a row of o with equal keys, in the
\* order of an inner merge: by the row of t, then by the row of o.  Null keys
\* match each other.
MatchPairs(t, o, on) ==
    LET n   == NRows(t)
        m   == NRows(o)
        all == [k \in 1..(n * m) |-> <<((k - 1) \div m) + 1, ((k - 1) % m) + 1>>]
        Match(p) == RowKey(t, on, p[1] - 1) = RowKey(o, on, p[2] - 1)
    IN SelectSeq(all, Match)

\* The name merge gives a column that both tables have outside the keys.
Suffix(name, side) ==
    IF name = "a" THEN (IF side = "x" THEN "a_x" ELSE "a_y")
    ELSE (IF side = "x" THEN "b_x" ELSE "b_y")

\* pd.merge(t, o, on=on, how='inner'): the columns of t in their order, then
\* the columns of o that are not keys; a default index.
merge(t, o, on) ==
    LET ps       == MatchPairs(t, o, on)
        NotKey(c) == c.name \notin Range(on)
        rcols    == SelectSeq(o.cols, NotKey)
        left     == [c \in 1..Len(t.cols) |->
                       [name |-> IF NotKey(t.cols[c]) /\ HasCol(o, t.cols[c].name)
                                 THEN Suffix(t.cols[c].name, "x")
                                 ELSE t.cols[c].name,
                        vals |-> [k \in 1..Len(ps) |-> t.cols[c].vals[ps[k][1]]]]]
        right    == [c \in 1..Len(rcols) |->
                       [name |-> IF HasCol(t, rcols[c].name)
                                 THEN Suffix(rcols[c].name, "y")
                                 ELSE rcols[c].name,
                        vals |-> [k \in 1..Len(ps) |-> rcols[c].vals[ps[k][2]]]]]
    IN [index |-> [k \in 1..Len(ps) |-> k - 1], cols |-> left \o right]

\* The left_anti branch of join.  The distinct key rows of self are tagged
\* 'A' and those of other 'B'; groupby(on) collects the tags of each key
\* (a key with a null in it belongs to no group); the keys whose tags are
\* ('A',) are merged back onto self._df, which keeps every row of self with
\* such a key, as often as self has it.
leftAnti(t, o, on) ==
    LET keysA   == {RowKey(t, on, p) : p \in 0..(NRows(t) - 1)}
        keysB   == {RowKey(o, on, p) : p \in 0..(NRows(o) - 1)}
        live    == {k \in keysA \cup keysB : \A i \in 1..Len(on) : k[i] # None}
        Tags(k) == (IF k \in keysA THEN <<"A">> ELSE <<>>)
                     \o (IF k \in keysB THEN <<"B">> ELSE <<>>)
        keep    == {k \in live : Tags(k) = <<"A">>}
    IN ResetIndex(TakeRows(t, SortedSeq({i \in 1..NRows(t) :
                                           RowKey(t, on, i - 1) \in keep})))

\* What a method call leaves behind: the outcome r of its body in a new
\* wrapper, the table self holds after the call, the table other holds after
\* it, and which of the two DataFrames the returned object holds by
\* reference ("" for a DataFrame of its own).
WrapDataframe(r, t, o, shares) ==
    [status |-> r.status, evals |-> r.evals,
     table  |-> IF r.status = "ok" THEN r.table ELSE NoTable,
     self   |-> t, other |-> o, shares |-> shares]

Returned(table) == [status |-> "ok", evals |-> 0, table |-> table]

Raised(status) == [status |-> status, evals |-> 0, table |-> NoTable]

\* The column names as select expressions: col(name) for every name.
NamesAsCols(names) == [i \in 1..Len(names) |-> [name |-> names[i], src |-> names[i]]]

\* self._df.assign(**{name: Column._apply(col(src), self._df)}), with a
\* variant that writes the column into self._df itself and returns it.
withColumnInPlace(t, name, src) ==
    IF ~HasCol(t, src) THEN WrapDataframe(Raised("UnknownColumn"), t, NoTable, "")
    ELSE WrapDataframe(Returned(Assign(t, name, ColVals(t, src))),
                       Assign(t, name, ColVals(t, src)), NoTable, "self")

withColumn(t, name, src) ==
    IF ~HasCol(t, src) THEN WrapDataframe(Raised("UnknownColumn"), t, NoTable, "")
    ELSE WrapDataframe(Returned(Assign(t, name, ColVals(t, src))), t, NoTable, "")

\* self.select(*filter(lambda c: c not in cols, self.columns))
drop(t, names) ==
    LET Stays(c) == c.name \notin names
        kept     == SelectSeq(t.cols, Stays)
    IN WrapDataframe(select(t, NamesAsCols([i \in 1..Len(kept) |-> kept[i].name])),
                     t, NoTable, "")

\* self.withColumn(new_name, col(old_name)).drop(old_name): drop runs on the
\* wrapper withColumn returned.
withColumnRenamed(t, old_name, new_name) ==
    LET w == withColumn(t, new_name, old_name)
    IN IF w.status # "ok" THEN w
       ELSE [drop(w.table, {old_name}) EXCEPT !.self = w.self]

\* self._df.drop_duplicates()
distinct(t) == WrapDataframe(Returned(DropDuplicates(t)), t, NoTable, "")

\* pd.concat([self._df, other._df], axis='index').drop_duplicates()
union(t, o) ==
    IF Names(t) # Names(o) THEN WrapDataframe(Raised("AssertionError"), t, o, "")
    ELSE WrapDataframe(Returned(DropDuplicates(Concat(t, o))), t, o, "")

\* pd.merge(self._df, other._df, on=self.columns, how='inner').drop_duplicates()
intersect(t, o) ==
    IF Names(t) # Names(o) THEN WrapDataframe(Raised("AssertionError"), t, o, "")
    ELSE WrapDataframe(
             Returned(DropDuplicates(
                 merge(t, o, [c \in 1..Len(t.cols) |-> t.cols[c].name]))),
             t, o, "")

\* join(other, on, how) for how in inner, left_anti
join(t, o, on, how) ==
    IF how = "left_anti" THEN WrapDataframe(Returned(leftAnti(t, o, on)), t, o, "")
    ELSE WrapDataframe(Returned(merge(t, o, on)), t, o, "")

\* self.join(other, on=self.columns, how='left_anti')
subtract(t, o) ==
    IF Names(t) # Names(o) THEN WrapDataframe(Raised("AssertionError"), t, o, "")
    ELSE join(t, o, [c \in 1..Len(t.cols) |-> t.cols[c].name], "left_anti")

\* The tables a second wrapper holds: self._df.head(k) of the table, from no
\* rows to all of them.
Others(t) == {TakeRows(t, [i \in 1..k |-> i]) : k \in 0..NRows(t)}

\* The key lists of the joins and grouping calls made on the wrapper.
OnLists == {<<"a">>, <<"a", "b">>}

\* The arguments of a call on the wrapper of df, with the tables the two
\* wrappers hold when it is made.
CallOf(op, o) ==
    [op |-> op, via |-> "", keys |-> <<>>, aggs |-> <<>>, cols |-> <<>>,
     self |-> df, other |-> o, old |-> "", new |-> ""]

GroupingOps == {"groupBy", "rollup", "cube"}

\* Calls are made one after another on the wrapper of df: the first on the
\* fresh wrapper, a further one after a distinct; a grouping call is followed
\* by the agg of the grouped wrapper it returned.
CanCall == call.op \in {"new", "distinct"}

\* df.select(c)
CallSelect ==
    \E c \in SelectCols :
        LET out == WrapDataframe(select(df, <<c>>), df, NoTable, "")
        IN /\ CanCall
           /\ res' = out
           /\ df' = out.self
           /\ call' = [CallOf("select", NoTable) EXCEPT !.cols = <<c>>]
           /\ grouped' = NoGroups

\* df.filter(col(c) == x)
CallFilter ==
    \E c \in ColNames, x \in 1..MaxKey :
        LET keep == SortedSeq({i \in 1..NRows(df) : ColVals(df, c)[i] = x})
            out  == WrapDataframe(Returned(TakeRows(df, keep)), df, NoTable, "")
        IN /\ CanCall
           /\ res' = out
           /\ df' = out.self
           /\ call' = [CallOf("filter", NoTable) EXCEPT !.keys = <<c>>]
           /\ grouped' = NoGroups

\* df.withColumn(name, col(src))
CallWithColumn ==
    \E name \in ColNames \cup {"y"}, src \in ColNames :
        LET out == withColumn(df, name, src)
        IN /\ CanCall
           /\ res' = out
           /\ df' = out.self
           /\ call' = [CallOf("withColumn", NoTable) EXCEPT !.old = src, !.new = name]
           /\ grouped' = NoGroups

\* df.withColumnRenamed(old_name, new_name)
CallWithColumnRenamed ==
    \E old_name \in ColNames, new_name \in ColNames \cup {"y"} :
        LET out == withColumnRenamed(df, old_name, new_name)
        IN /\ CanCall
           /\ res' = out
           /\ df' = out.self
           /\ call' = [CallOf("withColumnRenamed", NoTable)
                         EXCEPT !.old = old_name, !.new = new_name]
           /\ grouped' = NoGroups

\* df.drop(*names)
CallDrop ==
    \E names \in SUBSET ColNames :
        LET out == drop(df, names)
            Dropped(c) == c.name \in names
            gone == SelectSeq(df.cols, Dropped)
        IN /\ CanCall
           /\ res' = out
           /\ df' = out.self
           /\ call' = [CallOf("drop", NoTable)
                         EXCEPT !.keys = [i \in 1..Len(gone) |-> gone[i].name]]
           /\ grouped' = NoGroups

\* df.distinct()
CallDistinct ==
    LET out == distinct(df)
    IN /\ CanCall
       /\ res' = out
       /\ df' = out.self
       /\ call' = CallOf("distinct", NoTable)
       /\ grouped' = NoGroups

\* df.sort(c, ascending=...)
CallSort ==
    \E c \in ColNames, ascending \in BOOLEAN :
    \E p \in Permutations(1..NRows(df)) :
        LET out == WrapDataframe(Returned(TakeRows(df, p)), df, NoTable, "")
        IN /\ CanCall
           /\ \A i, j \in 1..NRows(df) :
                 i < j => SortsBefore(ColVals(df, c)[p[i]], ColVals(df, c)[p[j]],
                                      ascending)
           /\ res' = out
           /\ df' = out.self
           /\ call' = [CallOf("sort", NoTable) EXCEPT !.keys = <<c>>]
           /\ grouped' = NoGroups

\* df.union(other)
CallUnion ==
    \E o \in Others(df) :
        LET out == union(df, o)
        IN /\ CanCall
           /\ res' = out
           /\ df' = out.self
           /\ call' = CallOf("union", o)
           /\ grouped' = NoGroups

\* df.intersect(other)
CallIntersect ==
    \E o \in Others(df) :
        LET out == intersect(df, o)
        IN /\ CanCall
           /\ res' = out
           /\ df' = out.self
           /\ call' = CallOf("intersect", o)
           /\ grouped' = NoGroups

\* df.subtract(other)
CallSubtract ==
    \E o \in Others(df) :
        LET out == subtract(df, o)
        IN /\ CanCall
           /\ res' = out
           /\ df' = out.self
           /\ call' = CallOf("subtract", o)
           /\ grouped' = NoGroups

\* df.join(other, on=on, how=how)
CallJoin ==
    \E o \in Others(df), on \in OnLists, how \in {"inner", "left_anti"} :
        LET out == join(df, o, on, how)
        IN /\ CanCall
           /\ res' = out
           /\ df' = out.self
           /\ call' = [CallOf("join", o) EXCEPT !.keys = on, !.via = how]
           /\ grouped' = NoGroups

\* df.groupBy(*K): the grouped wrapper holds self._df itself.
CallGroupBy ==
    \E K \in OnLists :
        LET out == WrapDataframe(Returned(NoTable), df, NoTable, "self")
        IN /\ CanCall
           /\ grouped' = groupBy(df, K)
           /\ res' = out
           /\ df' = out.self
           /\ call' = [CallOf("groupBy", NoTable) EXCEPT !.keys = K]

\* df.rollup(*K)
CallRollup ==
    \E K \in OnLists :
        LET out == WrapDataframe([Returned(NoTable) EXCEPT !.status = rollup(df, K).status],
                                 df, NoTable, "self")
        IN /\ CanCall
           /\ grouped' = rollup(df, K).grouped
           /\ res' = out
           /\ df' = out.self
           /\ call' = [CallOf("rollup", NoTable) EXCEPT !.keys = K]

\* df.cube(*K)
CallCube ==
    \E K \in OnLists :
        LET out == WrapDataframe([Returned(NoTable) EXCEPT !.status = cube(df, K).status],
                                 df, NoTable, "self")
        IN /\ CanCall
           /\ grouped' = cube(df, K).grouped
           /\ res' = out
           /\ df' = out.self
           /\ call' = [CallOf("cube", NoTable) EXCEPT !.keys = K]

\* df.agg(a)
CallAgg ==
    \E a \in AggCols :
        LET out == WrapDataframe(agg(df, <<a>>), df, NoTable, "")
        IN /\ CanCall
           /\ res' = out
           /\ df' = out.self
           /\ call' = [CallOf("agg", NoTable) EXCEPT !.aggs = <<a>>]
           /\ grouped' = NoGroups

\* grouped.agg(a) on the grouped wrapper the last grouping call returned.
CallGroupedAgg ==
    /\ grouped.valid
    /\ call.op \in GroupingOps
    /\ \E a \in AggCols :
          LET out == WrapDataframe(GroupedAgg(df, grouped, <<a>>), df, NoTable, "")
          IN /\ res' = out
             /\ df' = out.self
             /\ call' = [CallOf("grouped.agg", NoTable)
                           EXCEPT !.via = call.op, !.keys = call.keys, !.aggs = <<a>>]
    /\ UNCHANGED grouped

NextTable ==
    \/ CallSelect
    \/ CallFilter
    \/ CallWithColumn
    \/ CallWithColumnRenamed
    \/ CallDrop
    \/ CallDistinct
    \/ CallSort
    \/ CallUnion
    \/ CallIntersect
    \/ CallSubtract
    \/ CallJoin
    \/ CallGroupBy
    \/ CallRollup
    \/ CallCube
    \/ CallAgg
    \/ CallGroupedAgg

SpecTable == Init /\ [][NextTable]_vars

\* C16: withColumnRenamed(old_name, new_name) on a table that has old_name
\* keeps the number of rows, yields a column new_name with the values
\* old_name held, no column old_name unless the two names are equal, and
\* every column of another name with its values.
C16_PureRename ==
    call.op = "withColumnRenamed" =>
        LET t == res.table
        IN /\ res.status = "ok"
           /\ NRows(t) = NRows(call.self)
           /\ \E c \in 1..Len(t.cols) :
                 /\ t.cols[c].name = call.new
                 /\ t.cols[c].vals = ColVals(call.self, call.old)
           /\ call.new # call.old => ~HasCol(t, call.old)
           /\ \A n \in Names(call.self) \ {call.old, call.new} :
                 \E c \in 1..Len(t.cols) :
                    /\ t.cols[c].name = n
                    /\ t.cols[c].vals = ColVals(call.self, n)

\* C15: subtract(other) on tables of the same columns holds a row exactly
\* when self has it and other has not, and holds no row twice.
C15_SetSubtraction ==
    call.op = "subtract" =>
        /\ res.status = "ok"
        /\ Rows(res.table) = Rows(call.self) \ Rows(call.other)
        /\ Cardinality(Rows(res.table)) = NRows(res.table)

====
